---- MODULE Spec2Model ----
(***************************************************************************)
(* Form validation and autosave of static/js/main.js (Rentz).              *)
(*                                                                         *)
(* Strings that the code inspects character by character (field names,     *)
(* field values) are sequences of one-character strings; the fixed texts   *)
(* the code only passes along (error messages) are single pieces.          *)
(***************************************************************************)
EXTENDS Integers, Sequences, FiniteSets, TLC

VARIABLES
    phase,      \* page lifecycle: "unloaded", "loading", "ready", "submitted"
    value,      \* value[f]: field.value of every field of the document
    errNodes,   \* errNodes[c]: the .field-error children of container c, in order
    errClass,   \* errClass[f]: field.classList contains 'error'
    store,      \* store[id]: localStorage item "form_" + id
    timer,      \* timer[id]: the form's debounce closure: pending (ms left on each
                \* scheduled timeout) and timeout (the one the closure variable names)
    burst,      \* history: ms since the last input event on the form, NoBurst if none
    writes,     \* history: saveFormData writes since the last input event on the form
    events,     \* history: input events of the form's current burst (each less than
                \* Wait ms after the one before), counted up to MaxBurstCount
    cleared,    \* history: a submit cleared the form's entry and no input came since
    toasts,     \* history: showNotification calls of the step just taken
    bound,      \* the autosave forms whose input and submit listeners are registered
    dispatched, \* history: the fields the step just taken dispatched an input event on
    vf,         \* the field under validateField (pure-function specification)
    vr          \* its result, NoResult before validateField ran

vars == <<phase, value, errNodes, errClass, store, timer, burst, writes, events, cleared,
          toasts, bound, dispatched, vf, vr>>

pageVars == <<phase, value, errNodes, errClass, store, timer, burst, writes, events,
              cleared, toasts, bound, dispatched>>

----------------------------------------------------------------------------
(* Strings *)

EmptyStr == <<>>

WhiteSpace == {" ", "\t", "\n"}

Digits == {"0", "1", "2", "3", "4", "5", "6", "7", "8", "9"}

RECURSIVE TrimStart(_)
TrimStart(s) ==
    IF s # <<>> /\ Head(s) \in WhiteSpace THEN TrimStart(Tail(s)) ELSE s

RECURSIVE TrimEnd(_)
TrimEnd(s) ==
    IF s # <<>> /\ s[Len(s)] \in WhiteSpace THEN TrimEnd(SubSeq(s, 1, Len(s) - 1)) ELSE s

\* String.prototype.trim
Trim(s) == TrimEnd(TrimStart(s))

\* Every occurrence of from replaced by to (what replace does with a /g pattern).
ReplaceAll(s, from, to) ==
    [i \in 1..Len(s) |-> IF s[i] = from THEN to ELSE s[i]]

\* String.prototype.replace with a string pattern: the first occurrence only.
ReplaceFirst(s, from, to) ==
    LET hits == {i \in 1..Len(s) : s[i] = from}
    IN  IF hits = {} THEN s
        ELSE LET k == CHOOSE i \in hits : \A j \in hits : i <= j
             IN  [i \in 1..Len(s) |-> IF i = k THEN to ELSE s[i]]

----------------------------------------------------------------------------
(* validateField: the rules *)

MinPasswordLength == 8

PhoneLength == 10

\* document.querySelector found nothing (a piece no field value equals).
NoElement == <<"no-element">>

MsgRequiredSuffix == " is required"
MsgEmail == <<"Please enter a valid email address">>
MsgPhone == <<"Please enter a valid 10-digit mobile number">>
MsgPassword == <<"Password must be at least 8 characters long">>
MsgMismatch == <<"Passwords do not match">>
MsgPrice == <<"Please enter a valid price">>

phone_number == <<"p", "h", "o", "n", "e", "_", "n", "u", "m", "b", "e", "r">>
password1 == <<"p", "a", "s", "s", "w", "o", "r", "d", "1">>
password2 == <<"p", "a", "s", "s", "w", "o", "r", "d", "2">>
price_per_day == <<"p", "r", "i", "c", "e", "_", "p", "e", "r", "_", "d", "a", "y">>

\* /^[^\s@]+@[^\s@]+\.[^\s@]+$/ : local@domain.tld, none of the three parts empty,
\* none holding white space or a second @.
emailRegexTest(s) ==
    /\ \A i \in 1..Len(s) : s[i] \notin WhiteSpace
    /\ Cardinality({i \in 1..Len(s) : s[i] = "@"}) = 1
    /\ \E i \in 2..Len(s) :
          /\ s[i] = "@"
          /\ \E j \in (i + 2)..(Len(s) - 1) : s[j] = "."

\* /^[6-9]\d{9}$/
phoneRegexTest(s) ==
    /\ Len(s) = PhoneLength
    /\ s[1] \in {"6", "7", "8", "9"}
    /\ \A i \in 1..Len(s) : s[i] \in Digits

\* The longest prefix of s made of characters of set.
RECURSIVE SpanOf(_, _)
SpanOf(s, set) ==
    IF s # <<>> /\ Head(s) \in set THEN <<Head(s)>> \o SpanOf(Tail(s), set) ELSE <<>>

\* parseFloat(s) on a trimmed string, as the sign of its result: "nan", "neg",
\* "zero" or "pos". It reads an optional sign, digits, and an optional fraction,
\* and ignores whatever follows (exponents and "Infinity" are not modelled).
parseFloatSign(s) ==
    LET signed == s # <<>> /\ Head(s) \in {"+", "-"}
        body   == IF signed THEN Tail(s) ELSE s
        int    == SpanOf(body, Digits)
        rest   == SubSeq(body, Len(int) + 1, Len(body))
        frac   == IF rest # <<>> /\ Head(rest) = "." THEN SpanOf(Tail(rest), Digits) ELSE <<>>
        digits == int \o frac
    IN  IF digits = <<>> THEN "nan"
        ELSE IF \A i \in 1..Len(digits) : digits[i] = "0" THEN "zero"
        ELSE IF signed /\ Head(s) = "-" THEN "neg"
        ELSE "pos"

\* RuleFails as it would be if a failing rule left an earlier message alone.
RuleFailsKeepFirst(prev, message) ==
    IF prev.isValid THEN [isValid |-> FALSE, errorMessage |-> message] ELSE prev

\* A failing rule: errorMessage = ...; isValid = false (whatever a rule before it set).
RuleFails(prev, message) ==
    [isValid |-> FALSE, errorMessage |-> message]

\* One if-block of validateField: a rule whose condition holds fails; otherwise the
\* verdict so far stands.
Rule(condition, prev, message) ==
    IF condition THEN RuleFails(prev, message) ELSE prev

\* HasValue as it would be without the test: the kind rules run on an empty value too.
HasValueAlways(v) == TRUE

\* The "&& value" of every kind rule: the trimmed value is not empty.
HasValue(v) == v # EmptyStr

\* validateField's verdict for field f (a record of its name, id, type, required and
\* value), pw1 being the value of document.querySelector('[name="password1"]') or
\* NoElement: the final isValid and errorMessage.
validateFieldResult(f, pw1) ==
    LET v         == Trim(f.value)
        fieldName == IF f.name # EmptyStr THEN f.name ELSE f.id
        r0 == [isValid |-> TRUE, errorMessage |-> <<>>]
        r1 == Rule(f.required /\ ~HasValue(v), r0,
                   ReplaceFirst(fieldName, "_", " ") \o <<MsgRequiredSuffix>>)
        r2 == Rule(f.type = "email" /\ HasValue(v) /\ ~emailRegexTest(v), r1, MsgEmail)
        r3 == Rule(f.name = phone_number /\ HasValue(v) /\ ~phoneRegexTest(v), r2, MsgPhone)
        r4 == Rule(f.name = password1 /\ HasValue(v) /\ Len(v) < MinPasswordLength, r3,
                   MsgPassword)
        r5 == Rule(f.name = password2 /\ HasValue(v) /\ pw1 # NoElement /\ v # pw1, r4,
                   MsgMismatch)
        r6 == Rule(f.name = price_per_day /\ HasValue(v) /\ parseFloatSign(v) # "pos", r5,
                   MsgPrice)
    IN  r6

----------------------------------------------------------------------------
(* The document: two forms, both opted in to autosave *)

secret12 == <<"s", "e", "c", "r", "e", "t", "1", "2">>
hunter22 == <<"h", "u", "n", "t", "e", "r", "2", "2">>
docName == <<"d", "o", "c">>
fakepath == <<"C", ":", "/", "f", "a", "k", "e", "p", "a", "t", "h", "/", "a", ".", "p", "n", "g">>
objectObject == <<"[", "o", "b", "j", "e", "c", "t", " ", "O", "b", "j", "e", "c", "t", "]">>

\* document.querySelectorAll('form'), in document order.
FormOrder == <<"login", "signup">>

Forms == {FormOrder[i] : i \in DOMAIN FormOrder}

\* form.dataset.autosave of the forms matching form[data-autosave].
AutosaveId == [form \in Forms |-> form]

\* Every input, textarea and select of the document, in document order.
FieldOrder == <<"login_pw", "pw1", "pw2", "doc", "docfile">>

Fields == {FieldOrder[i] : i \in DOMAIN FieldOrder}

\* The attributes the code reads of each field, and its parentElement. The signup
\* form holds a file input that shares its name and its container with the required
\* text input before it; the container of pw1 also holds the container of pw2.
FieldDef ==
    [f \in Fields |->
        CASE f = "login_pw" -> [form |-> "login", name |-> password1, id |-> EmptyStr,
                                type |-> "password", required |-> FALSE, parent |-> "cLogin"]
          [] f = "pw1"      -> [form |-> "signup", name |-> password1, id |-> EmptyStr,
                                type |-> "password", required |-> TRUE, parent |-> "cPw"]
          [] f = "pw2"      -> [form |-> "signup", name |-> password2, id |-> EmptyStr,
                                type |-> "password", required |-> FALSE, parent |-> "cPw2"]
          [] f = "doc"      -> [form |-> "signup", name |-> docName, id |-> EmptyStr,
                                type |-> "text", required |-> TRUE, parent |-> "cDoc"]
          [] f = "docfile"  -> [form |-> "signup", name |-> docName, id |-> EmptyStr,
                                type |-> "file", required |-> FALSE, parent |-> "cDoc"]]

Containers == {"cLogin", "cPw", "cPw2", "cDoc"}

\* The element children of a container that are containers themselves, in order;
\* error nodes are appended after them.
SubContainers ==
    [c \in Containers |-> IF c = "cPw" THEN <<"cPw2">> ELSE <<>>]

\* What the user types or picks in a field. The user works on the signup form; the
\* login form is loaded, rehydrated, validated and submitted as it was rendered.
TypedValues ==
    [f \in Fields |->
        CASE f = "login_pw" -> {}
          [] f = "pw1"      -> {EmptyStr, secret12}
          [] f = "pw2"      -> {EmptyStr, secret12}
          [] f = "doc"      -> {EmptyStr, <<"x">>}
          [] f = "docfile"  -> {EmptyStr, fakepath}]

\* What a field can hold when DOMContentLoaded fires: rendered by the server or
\* restored by the browser; a file input starts empty.
RenderedValues ==
    [f \in Fields |->
        CASE f = "login_pw" -> {hunter22}
          [] f = "docfile"  -> {EmptyStr}
          [] OTHER          -> TypedValues[f]]

NoField == "no-field"

\* The indices of the fields of form named key, in document order.
NamedIn(form, key) ==
    {i \in DOMAIN FieldOrder :
        FieldDef[FieldOrder[i]].form = form /\ FieldDef[FieldOrder[i]].name = key}

\* form.querySelector(`[name="${key}"]`): the first such field, or NoField.
querySelectorName(form, key) ==
    IF NamedIn(form, key) = {} THEN NoField
    ELSE FieldOrder[CHOOSE i \in NamedIn(form, key) : \A j \in NamedIn(form, key) : i <= j]

\* document.querySelector('[name="password1"]'): the first in the whole document.
documentPassword1(val) ==
    LET hits == {i \in DOMAIN FieldOrder : FieldDef[FieldOrder[i]].name = password1}
    IN  IF hits = {} THEN NoElement
        ELSE val[FieldOrder[CHOOSE i \in hits : \A j \in hits : i <= j]]

\* The record validateFieldResult reads, of field f holding the values val.
FieldRecord(f, val) ==
    [name |-> FieldDef[f].name, id |-> FieldDef[f].id, type |-> FieldDef[f].type,
     required |-> FieldDef[f].required, value |-> val[f]]

----------------------------------------------------------------------------
(* Error annotations. d is the annotation state: [errNodes, errClass]. *)

NoContainer == "no-container"

\* container.querySelector('.field-error'): the container holding the first error
\* node among c's descendants in document order, or NoContainer. The containers
\* inside c come before c's own error nodes, which were appended.
RECURSIVE FirstErrorHolder(_, _)
FirstErrorHolder(c, nodes) ==
    LET inner == {i \in DOMAIN SubContainers[c] :
                     FirstErrorHolder(SubContainers[c][i], nodes) # NoContainer}
    IN  IF inner # {}
        THEN FirstErrorHolder(SubContainers[c][CHOOSE i \in inner : \A j \in inner : i <= j],
                              nodes)
        ELSE IF nodes[c] # <<>> THEN c ELSE NoContainer

\* if (errorDiv) errorDiv.remove(): the first error node of the holder goes.
removeError(nodes) == IF nodes = <<>> THEN nodes ELSE Tail(nodes)

clearFieldError(f, d) ==
    LET holder == FirstErrorHolder(FieldDef[f].parent, d.errNodes)
    IN  [errClass |-> [d.errClass EXCEPT ![f] = FALSE],
         errNodes |-> IF holder = NoContainer THEN d.errNodes
                      ELSE [d.errNodes EXCEPT ![holder] = removeError(@)]]

showFieldError(f, message, d) ==
    LET c == clearFieldError(f, d)
    IN  [errClass |-> [c.errClass EXCEPT ![f] = TRUE],
         errNodes |-> [c.errNodes EXCEPT ![FieldDef[f].parent] = Append(@, message)]]

\* validateField(field): the annotation state it leaves, and its verdict.
validateField(f, val, d) ==
    LET r == validateFieldResult(FieldRecord(f, val), documentPassword1(val))
    IN  [isValid |-> r.isValid,
         dom     |-> IF r.isValid THEN clearFieldError(f, d)
                     ELSE showFieldError(f, r.errorMessage, d)]

\* The fields of a form, in document order: form.querySelectorAll('input, textarea, select').
FormInputs(form) ==
    SelectSeq(FieldOrder, LAMBDA f : FieldDef[f].form = form)

\* inputs.forEach(input => { if (!validateField(input)) isValid = false; }), from
\* the i-th input on.
RECURSIVE validateAll(_, _, _, _)
validateAll(inputs, i, val, d) ==
    IF i > Len(inputs) THEN [isValid |-> TRUE, dom |-> d]
    ELSE LET one  == validateField(inputs[i], val, d)
             rest == validateAll(inputs, i + 1, val, one.dom)
         IN  [isValid |-> one.isValid /\ rest.isValid, dom |-> rest.dom]

----------------------------------------------------------------------------
(* Autosave: the stored item and the debounce timer *)

\* debounce(..., 1000)
Wait == 1000

NoTimer == -1

NoBurst == -1

\* A File of a FormData entry, and what JSON.stringify makes of it.
FileObject == <<"[File]">>
JsonEmptyObject == <<"{}">>

\* localStorage.getItem gave null.
Absent == [kind |-> "absent", data |-> <<>>]

\* new FormData(form).entries(): a (name, value) pair per named field, in document
\* order; the value of a file input is a File, also when no file is chosen.
formDataEntries(form, val) ==
    LET named == SelectSeq(FormInputs(form), LAMBDA f : FieldDef[f].name # EmptyStr)
    IN  [i \in DOMAIN named |->
            [key |-> FieldDef[named[i]].name,
             val |-> IF FieldDef[named[i]].type = "file" THEN FileObject ELSE val[named[i]]]]

\* form.querySelector(`[name="${key}"]`).type !== 'file'
KeepsEntry(form, key) ==
    FieldDef[querySelectorName(form, key)].type # "file"

\* The loop of saveFormData from the i-th entry on: data[key] = value.
RECURSIVE collectData(_, _, _, _)
collectData(form, entries, i, data) ==
    IF i > Len(entries) THEN data
    ELSE LET e == entries[i]
         IN  collectData(form, entries, i + 1,
                IF KeepsEntry(form, e.key)
                THEN [k \in DOMAIN data \cup {e.key} |-> IF k = e.key THEN e.val ELSE data[k]]
                ELSE data)

\* JSON.stringify(data): a string stays a string, a File becomes {}.
jsonStringify(data) ==
    [kind |-> "object",
     data |-> [k \in DOMAIN data |-> IF data[k] = FileObject THEN JsonEmptyObject ELSE data[k]]]

\* The item saveFormData writes for the form holding the values val.
saveFormData(form, val) ==
    jsonStringify(collectData(form, formDataEntries(form, val), 1, <<>>))

\* field.value = value: the string the field then holds.
toFieldValue(v) ==
    IF v = JsonEmptyObject THEN objectObject ELSE v

\* JSON.parse(savedData) throws on corrupt text; Object.entries(null) throws.
Throws(item) == item.kind \in {"corrupt", "null"}

\* InTry as it would be with only JSON.parse inside the try block.
InTryParseOnly(item) == item.kind # "null"

\* The try block of loadFormData encloses JSON.parse and Object.entries.
InTry(item) == TRUE

\* Restores as it would be with the test of the value inverted.
RestoresEmptyOnly(field, v) == field # NoField /\ v = EmptyStr

\* if (field && value)
Restores(field, v) == field # NoField /\ v # EmptyStr

\* The keys of a parsed item whose value loadFormData writes into a field.
RestoredKeys(form, item) ==
    IF item.kind \notin {"object", "array"} THEN {}
    ELSE {k \in DOMAIN item.data : Restores(querySelectorName(form, k), item.data[k])}

\* loadFormData(form, formId): the values it leaves, the fields it dispatched an
\* input event on, and whether an exception leaves it.
loadFormData(form, item, val) ==
    LET keys   == RestoredKeys(form, item)
        fields == {querySelectorName(form, k) : k \in keys}
        keyOf(f) == CHOOSE k \in keys : querySelectorName(form, k) = f
    IN  [value      |-> [f \in Fields |->
                            IF f \in fields THEN toFieldValue(item.data[keyOf(f)]) ELSE val[f]],
         dispatched |-> fields,
         threw      |-> Throws(item) /\ ~InTry(item)]

\* clearFormData(formId): localStorage.removeItem of the form's key.
clearFormData(st, formId) == [st EXCEPT ![formId] = Absent]

\* The submit event as it would be if a prevented default kept it from the listeners
\* registered after the validator's.
ReachesAutosaveUnlessPrevented(defaultPrevented) == ~defaultPrevented

\* Whether the submit event reaches the autosave listener after the validator's
\* listener ran: e.preventDefault() cancels the default action and nothing else.
ReachesAutosave(defaultPrevented) == TRUE

\* clearTimeout as it would be if it left the timeout pending.
clearTimeoutNoop(pending, id) == pending

\* clearTimeout(id): the timeout named id, if still pending, is dropped.
clearTimeout(pending, id) == pending \ {id}

\* The function debounce returns, called on an input event: the pending timeout is
\* cancelled and a new one of Wait ms is scheduled.
executedFunction(t) ==
    [pending |-> clearTimeout(t.pending, t.timeout) \cup {Wait}, timeout |-> Wait]

\* The timer state after the due timeout ran later(): clearTimeout(timeout).
later(t) ==
    LET left == clearTimeout(t.pending \ {0}, t.timeout)
    IN  [pending |-> left, timeout |-> IF t.timeout \in left THEN t.timeout ELSE NoTimer]

Idle == [pending |-> {}, timeout |-> NoTimer]

----------------------------------------------------------------------------
(* Bounds *)

\* The clock advances by Wait / TicksPerWait ms.
TicksPerWait == 2

Quantum == Wait \div TicksPerWait

\* Input events counted in one burst.
MaxBurstCount == 2

\* Error nodes a container may hold before the model stops adding more.
MaxErrNodes == 2

WithinBounds(d) == \A c \in Containers : Len(d.errNodes[c]) <= MaxErrNodes

----------------------------------------------------------------------------
(* The page *)

BlankValues == [f \in Fields |-> EmptyStr]

NoAnnotations == [errNodes |-> [c \in Containers |-> <<>>], errClass |-> [f \in Fields |-> FALSE]]

dom == [errNodes |-> errNodes, errClass |-> errClass]

NoResult == [isValid |-> FALSE, errorMessage |-> <<"no-result">>, nodes |-> <<>>]

IdleField == [name |-> EmptyStr, id |-> EmptyStr, type |-> "text", required |-> FALSE,
              value |-> EmptyStr, pw1 |-> NoElement, nodes |-> <<>>]

\* Items found in localStorage that saveFormData did not write: none, text that is
\* not JSON, JSON null, a JSON array.
ForeignItems ==
    {Absent,
     [kind |-> "corrupt", data |-> <<>>],
     [kind |-> "null", data |-> <<>>],
     [kind |-> "array", data |-> (<<"0">> :> <<"x">>)]}

\* The items the forms start with: the first form has none or JSON null (the value
\* that parses and then fails in Object.entries), the others any foreign item.
InitialItems ==
    {st \in [Forms -> ForeignItems] : st[FormOrder[1]].kind \in {"absent", "null"}}

\* The values the fields hold when DOMContentLoaded fires.
MarkupValues ==
    {val \in [Fields -> UNION {RenderedValues[f] : f \in Fields}] :
        \A f \in Fields : val[f] \in RenderedValues[f]}

InitPage ==
    /\ phase = "unloaded"
    /\ value = BlankValues
    /\ errNodes = NoAnnotations.errNodes
    /\ errClass = NoAnnotations.errClass
    /\ timer = [form \in Forms |-> Idle]
    /\ burst = [form \in Forms |-> NoBurst]
    /\ writes = [form \in Forms |-> 0]
    /\ events = [form \in Forms |-> 0]
    /\ cleared = [form \in Forms |-> FALSE]
    /\ toasts = 0
    /\ bound = {}
    /\ dispatched = {}

Init ==
    /\ InitPage
    /\ store \in InitialItems
    /\ vf = IdleField
    /\ vr = NoResult

\* initAutoSave as it would be if it registered the input listener of a form before
\* calling loadFormData on it.
ListensWhileLoadingAlready(form, boundSoFar) == TRUE

\* Whether the debounced input listener of form is registered while loadFormData
\* dispatches on its fields: only if an earlier turn of forms.forEach bound this form;
\* the turn of the form itself calls loadFormData first and addEventListener after.
ListensWhileLoading(form, boundSoFar) == form \in boundSoFar

\* forms.forEach of initAutoSave from the i-th form on: loadFormData, then the two
\* listeners; an exception leaving loadFormData ends the loop (and initializeApp).
\* The input events loadFormData dispatches bubble to the form; each one the
\* debounced listener hears restarts the form's timeout at the same instant.
RECURSIVE initAutoSave(_, _)
initAutoSave(i, st) ==
    IF i > Len(FormOrder) THEN st
    ELSE LET form == FormOrder[i]
             l    == loadFormData(form, store[AutosaveId[form]], st.value)
             heard == l.dispatched # {} /\ ListensWhileLoading(form, st.bound)
         IN  IF l.threw THEN st
             ELSE initAutoSave(i + 1,
                    [value      |-> l.value,
                     dispatched |-> st.dispatched \cup l.dispatched,
                     timer      |-> IF heard THEN [st.timer EXCEPT ![form] = executedFunction(@)]
                                    ELSE st.timer,
                     bound      |-> st.bound \cup {form}])

\* The browser parses the next document: its fields hold what the server rendered
\* or the browser restored; no script has run yet.
Navigate ==
    /\ phase = "unloaded"
    /\ phase' = "loading"
    /\ value' \in MarkupValues
    /\ UNCHANGED <<errNodes, errClass, store, timer, burst, writes, events, cleared, toasts,
                   bound, dispatched, vf, vr>>

\* DOMContentLoaded: initializeApp. initFormValidation registers the blur, input and
\* submit listeners of every form; initAutoSave rehydrates and binds each form. Of
\* the validator's listeners the input events loadFormData dispatches reach
\* clearFieldError, which finds nothing to clear in the fresh document.
Load ==
    /\ phase = "loading"
    /\ LET st == initAutoSave(1, [value |-> value, dispatched |-> {}, timer |-> timer,
                                  bound |-> {}])
       IN  /\ value' = st.value
           /\ dispatched' = st.dispatched
           /\ timer' = st.timer
           /\ bound' = st.bound
    /\ phase' = "ready"
    /\ toasts' = 0
    /\ UNCHANGED <<errNodes, errClass, store, burst, writes, events, cleared, vf, vr>>

\* No timeout is due: a due timeout's task runs before the next event is handled.
NoneDue == \A form \in Forms : 0 \notin timer[form].pending

\* An input event on field f, whose value became v: the validator's listener clears
\* the field's error; the event bubbles to the form's debounced autosave listener.
Input(f, v) ==
    LET form == FieldDef[f].form
        d    == clearFieldError(f, dom)
    IN  /\ phase = "ready"
        /\ NoneDue
        /\ v # value[f]
        /\ value' = [value EXCEPT ![f] = v]
        /\ errNodes' = d.errNodes
        /\ errClass' = d.errClass
        /\ timer' = IF form \in bound THEN [timer EXCEPT ![form] = executedFunction(@)] ELSE timer
        /\ burst' = [burst EXCEPT ![form] = 0]
        /\ writes' = [writes EXCEPT ![form] = 0]
        /\ events' = [events EXCEPT ![form] =
                          IF burst[form] = NoBurst \/ burst[form] >= Wait THEN 1
                          ELSE IF @ < MaxBurstCount THEN @ + 1 ELSE @]
        /\ cleared' = [cleared EXCEPT ![form] = FALSE]
        /\ toasts' = 0
        /\ dispatched' = {}
        /\ UNCHANGED <<phase, store, bound, vf, vr>>

\* A blur event on field f: validateField(this).
Blur(f) ==
    LET r == validateField(f, value, dom)
    IN  /\ phase = "ready"
        /\ WithinBounds(r.dom)
        /\ errNodes' = r.dom.errNodes
        /\ errClass' = r.dom.errClass
        /\ toasts' = 0
        /\ dispatched' = {}
        /\ UNCHANGED <<phase, value, store, timer, burst, writes, events, cleared, bound,
                       vf, vr>>

\* A submit event on a form: the validator's listener (registered first) validates
\* every input and, if one is invalid, prevents the default and raises one
\* notification; then the autosave listener clears the stored item. A submission
\* that is not prevented starts the navigation; the page lives on until it unloads.
Submit(form) ==
    LET r == validateAll(FormInputs(form), 1, value, dom)
        autosave == form \in bound /\ ReachesAutosave(~r.isValid)
    IN  /\ phase = "ready"
        /\ NoneDue
        /\ WithinBounds(r.dom)
        /\ errNodes' = r.dom.errNodes
        /\ errClass' = r.dom.errClass
        /\ toasts' = IF r.isValid THEN 0 ELSE 1
        /\ store' = IF autosave THEN clearFormData(store, AutosaveId[form]) ELSE store
        /\ cleared' = IF autosave THEN [cleared EXCEPT ![form] = TRUE] ELSE cleared
        /\ phase' = IF r.isValid THEN "submitted" ELSE "ready"
        /\ dispatched' = {}
        /\ UNCHANGED <<value, timer, burst, writes, events, bound, vf, vr>>

\* The form's timeout is due: later() runs saveFormData on the values of that moment.
TimerFire(form) ==
    /\ phase \in {"ready", "submitted"}
    /\ 0 \in timer[form].pending
    /\ timer' = [timer EXCEPT ![form] = later(@)]
    /\ store' = [store EXCEPT ![AutosaveId[form]] = saveFormData(form, value)]
    /\ writes' = [writes EXCEPT ![form] = @ + 1]
    /\ toasts' = 0
    /\ dispatched' = {}
    /\ UNCHANGED <<phase, value, errNodes, errClass, burst, events, cleared, bound, vf, vr>>

\* The ms that pass in one step of the clock: Quantum, or less when a timeout
\* falls due sooner.
Step ==
    LET left == UNION {timer[form].pending : form \in Forms}
        soon == {x \in left : x < Quantum}
    IN  IF soon = {} THEN Quantum ELSE CHOOSE x \in soon : \A y \in soon : x <= y

\* Time passes; a due timeout runs before the clock moves on.
Advance ==
    /\ phase \in {"ready", "submitted"}
    /\ NoneDue
    /\ timer' = [form \in Forms |->
                    [pending |-> {x - Step : x \in timer[form].pending},
                     timeout |-> IF timer[form].timeout = NoTimer THEN NoTimer
                                 ELSE timer[form].timeout - Step]]
    /\ burst' = [form \in Forms |->
                    IF burst[form] = NoBurst THEN NoBurst
                    ELSE IF burst[form] + Step > Wait THEN Wait
                    ELSE burst[form] + Step]
    /\ toasts' = 0
    /\ dispatched' = {}
    /\ UNCHANGED <<phase, value, errNodes, errClass, store, writes, events, cleared, bound,
                   vf, vr>>

\* The document is discarded (navigation after a submit, reload, tab closed): its
\* fields, annotations, listeners and pending timeouts go; localStorage stays.
Unload ==
    /\ phase \in {"ready", "submitted"}
    /\ phase' = "unloaded"
    /\ value' = BlankValues
    /\ errNodes' = NoAnnotations.errNodes
    /\ errClass' = NoAnnotations.errClass
    /\ timer' = [form \in Forms |-> Idle]
    /\ burst' = [form \in Forms |-> NoBurst]
    /\ writes' = [form \in Forms |-> 0]
    /\ events' = [form \in Forms |-> 0]
    /\ toasts' = 0
    /\ bound' = {}
    /\ dispatched' = {}
    /\ UNCHANGED <<store, cleared, vf, vr>>

Next ==
    \/ Navigate
    \/ Load
    \/ \E f \in Fields : \E v \in TypedValues[f] : Input(f, v)
    \/ \E f \in Fields : Blur(f)
    \/ \E form \in Forms : Submit(form)
    \/ \E form \in Forms : TimerFire(form)
    \/ Advance
    \/ Unload

Spec == Init /\ [][Next]_vars

----------------------------------------------------------------------------
(* validateField as a function of one field: the fields it is applied to *)

emailName == <<"e", "m", "a", "i", "l">>
titleName == <<"t", "i", "t", "l", "e">>
someId == <<"a", "_", "b", "_", "c">>

FieldNames == {EmptyStr, emailName, titleName, phone_number, password1, password2, price_per_day}

FieldIds == {EmptyStr, someId}

FieldTypes == {"text", "email", "password"}

SampleValues ==
    {EmptyStr, <<" ", "\t">>,
     <<"a", "@", "b", ".", "c", "o">>, <<"a", "@", "b">>,
     <<"9", "8", "7", "6", "5", "4", "3", "2", "1", "0">>,
     <<"1", "8", "7", "6", "5", "4", "3", "2", "1", "0">>,
     secret12, <<"s", "h", "o", "r", "t">>,
     <<"1", "9", "9", ".", "9", "9">>, <<"0">>, <<"-", "5">>, <<" ", "7", " ">>}

FieldInputs ==
    [name : FieldNames, id : FieldIds, type : FieldTypes, required : BOOLEAN,
     value : SampleValues, pw1 : {NoElement, secret12, hunter22},
     nodes : {<<>>, <<MsgEmail>>}]

\* validateField on a field alone in its container: the verdict, the message, and the
\* error nodes of the container afterwards (showFieldError or clearFieldError).
validateAlone(f) ==
    LET r == validateFieldResult(f, f.pw1)
    IN  [isValid |-> r.isValid, errorMessage |-> r.errorMessage,
         nodes |-> IF r.isValid THEN removeError(f.nodes)
                   ELSE Append(removeError(f.nodes), r.errorMessage)]

InitField ==
    /\ InitPage
    /\ store = [form \in Forms |-> Absent]
    /\ vf \in FieldInputs
    /\ vr = NoResult

RunValidate ==
    /\ vr = NoResult
    /\ vr' = validateAlone(vf)
    /\ UNCHANGED <<vf, pageVars>>

\* The user edits the field; the annotation of the last validation stays.
EditField ==
    /\ vr # NoResult
    /\ \E v \in SampleValues : vf' = [vf EXCEPT !.value = v, !.nodes = vr.nodes]
    /\ vr' = NoResult
    /\ UNCHANGED pageVars

NextField == RunValidate \/ EditField

SpecField == InitField /\ [][NextField]_vars

----------------------------------------------------------------------------
(* Claims on validateField, checked under SpecField *)

\* The field name validateField puts in the required message.
ShownName(f) == IF f.name # EmptyStr THEN f.name ELSE f.id

\* The rules of validateField that fail for field f, numbered in the order required
\* (1), email (2), phone_number (3), password1 (4), password2 (5), price_per_day (6).
FailingRules(f) ==
    LET v == Trim(f.value)
    IN  {n \in 1..6 :
            \/ n = 1 /\ f.required /\ v = EmptyStr
            \/ n = 2 /\ f.type = "email" /\ v # EmptyStr /\ ~emailRegexTest(v)
            \/ n = 3 /\ f.name = phone_number /\ v # EmptyStr /\ ~phoneRegexTest(v)
            \/ n = 4 /\ f.name = password1 /\ v # EmptyStr /\ Len(v) < MinPasswordLength
            \/ n = 5 /\ f.name = password2 /\ v # EmptyStr /\ f.pw1 # NoElement /\ v # f.pw1
            \/ n = 6 /\ f.name = price_per_day /\ v # EmptyStr /\ parseFloatSign(v) # "pos"}

\* The rule an error message belongs to.
RuleOfMessage(m) ==
    CASE m = MsgEmail    -> 2
      [] m = MsgPhone    -> 3
      [] m = MsgPassword -> 4
      [] m = MsgMismatch -> 5
      [] m = MsgPrice    -> 6
      [] OTHER           -> IF m # <<>> /\ m[Len(m)] = MsgRequiredSuffix THEN 1 ELSE 0

\* C6 (as amended): the rules run in the fixed order and every failing rule
\* overwrites the message, so the message shown is that of the LAST failing rule in
\* the order; the field is valid exactly when no rule fails.
C6_LastFailingRuleWins ==
    vr # NoResult =>
        /\ vr.isValid <=> FailingRules(vf) = {}
        /\ FailingRules(vf) # {} =>
              /\ RuleOfMessage(vr.errorMessage) \in FailingRules(vf)
              /\ \A n \in FailingRules(vf) : n <= RuleOfMessage(vr.errorMessage)
              /\ vr.nodes = <<vr.errorMessage>>

\* C6 (as claimed): the message shown is that of the first failing rule in the order.
C6_FirstFailingRuleWins ==
    (vr # NoResult /\ FailingRules(vf) # {}) =>
        \A n \in FailingRules(vf) : RuleOfMessage(vr.errorMessage) <= n

\* A field of type email named phone_number failed both rules and shows the phone message.
C6_Witness ==
    /\ vr # NoResult
    /\ vf.type = "email" /\ vf.name = phone_number
    /\ FailingRules(vf) = {2, 3}
    /\ vr.errorMessage = MsgPhone

\* C7: a field whose trimmed value is empty is invalid exactly when it is required;
\* a non-required empty field passes, whatever its type or name, and is left with no
\* error annotation.
C7_EmptyValidIffNotRequired ==
    (vr # NoResult /\ Trim(vf.value) = EmptyStr) =>
        /\ vr.isValid <=> ~vf.required
        /\ ~vf.required => vr.nodes = <<>>

\* A non-required field of type email named password2, holding only white space and
\* annotated with an error, was validated: it passed and the annotation is gone.
C7_Witness ==
    /\ vr # NoResult
    /\ vf.value # EmptyStr /\ Trim(vf.value) = EmptyStr
    /\ ~vf.required /\ vf.type = "email" /\ vf.name = password2
    /\ vf.nodes # <<>>
    /\ vr.isValid /\ vr.nodes = <<>>

\* C8 (as claimed): when the required rule fails, the message is the field's name (its
\* id when it has no name) with every underscore replaced by a space, followed by
\* " is required".
C8_RequiredMessageReplacesEveryUnderscore ==
    (vr # NoResult /\ vf.required /\ Trim(vf.value) = EmptyStr) =>
        vr.errorMessage = ReplaceAll(ShownName(vf), "_", " ") \o <<MsgRequiredSuffix>>

----------------------------------------------------------------------------
(* Claims on the page, checked under Spec *)

FieldsOf(form) == {f \in Fields : FieldDef[f].form = form}

\* The fields of a form that alone carry their name and are no file input.
PlainFields(form) ==
    {f \in FieldsOf(form) :
        /\ FieldDef[f].type # "file"
        /\ \A g \in FieldsOf(form) : FieldDef[g].name = FieldDef[f].name => g = f}

\* While a burst is under way no write has happened and exactly one timeout is
\* pending, due Wait ms after the burst's last event; once Wait ms have passed the
\* one write is either due or done.
C1_OnePendingTimeout(form) ==
    /\ writes[form] <= 1
    /\ (burst[form] # NoBurst /\ burst[form] < Wait) =>
          /\ writes[form] = 0
          /\ timer[form].pending = {Wait - burst[form]}
    /\ burst[form] = Wait =>
          \/ writes[form] = 0 /\ timer[form].pending = {0}
          \/ writes[form] = 1 /\ timer[form].pending = {}

\* A write happens Wait ms after the last input event and stores the values the
\* fields hold at that moment.
C1_WriteAtQuiet(form) ==
    writes'[form] = writes[form] + 1 =>
        /\ burst[form] = Wait
        /\ store'[AutosaveId[form]].kind = "object"
        /\ \A f \in PlainFields(form) :
              store'[AutosaveId[form]].data[FieldDef[f].name] = value[f]

\* C1: a burst of input events, each less than Wait ms after the one before, produces
\* exactly one write under the form's key, Wait ms after the last event of the burst
\* (while the page stays loaded), holding the field values of that moment.
C1_DebouncedSingleWrite ==
    /\ [](\A form \in Forms : C1_OnePendingTimeout(form))
    /\ [][\A form \in Forms : C1_WriteAtQuiet(form)]_vars

\* A burst of at least two input events ended in its one write.
C1_Witness ==
    \E form \in Forms :
        /\ events[form] >= 2
        /\ burst[form] = Wait
        /\ writes[form] = 1
        /\ store[AutosaveId[form]].kind = "object"

\* C2 (as claimed): after a submit event, and as long as no input event follows it,
\* the store holds no item under the form's key.
C2_SubmitLeavesNoPayload ==
    \A form \in Forms : cleared[form] => store[AutosaveId[form]] = Absent

\* The step of DOMContentLoaded.
LoadStep == phase = "loading" /\ phase' = "ready"

\* C3 (as amended): on load, for every key of a parsed payload that names a field of
\* the form and whose payload value is a non-empty string, the field's value is set
\* to that value and an input event is dispatched on the field, whatever the field
\* held before; a key whose payload value is the empty string leaves its field as it
\* was, with no input event.
C3_RestoresNonEmpty ==
    [][LoadStep =>
        \A form \in Forms :
            LET item == store[AutosaveId[form]]
            IN  item.kind = "object" =>
                    \A k \in DOMAIN item.data :
                        LET f == querySelectorName(form, k)
                        IN  /\ (f # NoField /\ item.data[k] \notin {EmptyStr, JsonEmptyObject}) =>
                                   /\ value'[f] = item.data[k]
                                   /\ f \in dispatched'
                            /\ (f # NoField /\ item.data[k] = EmptyStr) =>
                                   /\ value'[f] = value[f]
                                   /\ f \notin dispatched']_vars

\* C3 (as claimed): the same for every string value of the payload, the empty string
\* included.
C3_RestoresEveryValue ==
    [][LoadStep =>
        \A form \in Forms :
            LET item == store[AutosaveId[form]]
            IN  item.kind = "object" =>
                    \A k \in DOMAIN item.data :
                        LET f == querySelectorName(form, k)
                        IN  (f # NoField /\ item.data[k] # JsonEmptyObject) =>
                                /\ value'[f] = item.data[k]
                                /\ f \in dispatched']_vars

\* The load just restored the saved password1 of the signup form and dispatched an
\* input event on the field.
C3_Witness ==
    /\ phase = "ready"
    /\ "pw1" \in dispatched
    /\ store["signup"].kind = "object"
    /\ store["signup"].data[password1] = secret12
    /\ value["pw1"] = secret12

\* C4 (as claimed): no stored payload holds a key whose value came from a file input.
C4_NoFileValueStored ==
    \A form \in Forms :
        store[AutosaveId[form]].kind = "object" =>
            \A k \in DOMAIN store[AutosaveId[form]].data :
                store[AutosaveId[form]].data[k] # JsonEmptyObject

\* C5: when the stored item of a form is not a parseable JSON mapping, the load throws
\* nothing to its caller (every form ends up with its listeners bound), and leaves the
\* fields of that form and the stored item as they were.
C5_MalformedItemSkipped ==
    [][LoadStep =>
        /\ bound' = Forms
        /\ \A form \in Forms :
              store[AutosaveId[form]].kind \in {"corrupt", "null", "array"} =>
                  /\ store'[AutosaveId[form]] = store[AutosaveId[form]]
                  /\ \A f \in FieldsOf(form) : value'[f] = value[f] /\ f \notin dispatched']_vars

\* The first form's item was JSON null; the load went on to rehydrate the second form
\* and bound the listeners of both.
C5_Witness ==
    /\ phase = "ready"
    /\ store["login"].kind = "null"
    /\ "pw1" \in dispatched
    /\ bound = Forms

\* C9 (as claimed): validateField on the field named password2, holding a non-empty
\* value, passes exactly when that value equals the value of the password1 field of
\* the same form.
C9_Password2MatchesOwnForm ==
    [][(Blur("pw2") /\ Trim(value["pw2"]) # EmptyStr) =>
          (~errClass'["pw2"] <=> value["pw2"] = value["pw1"])]_vars

\* C10 (as claimed): after any sequence of validations, every container holds at most
\* one error node.
C10_AtMostOneErrorNode ==
    \A c \in Containers : Len(errNodes[c]) <= 1

\* validateField's verdict on field f holding the present values.
Verdict(f) == validateFieldResult(FieldRecord(f, value), documentPassword1(value))

\* The container of field f holds an error node with the message of f's verdict.
Annotated(f, nodes) ==
    \E i \in DOMAIN nodes[FieldDef[f].parent] :
        nodes[FieldDef[f].parent][i] = Verdict(f).errorMessage

\* C11 (as claimed): a submit event validates every field of the form (each field's
\* error class tells its own verdict); the submission is cancelled exactly when some
\* field is invalid, exactly one notification is raised then and none otherwise, and
\* every invalid field is still annotated with its error when the handler returns.
C11_SubmitAnnotatesEveryInvalidField ==
    [][\A form \in Forms :
          Submit(form) =>
              LET invalid == {f \in FieldsOf(form) : ~Verdict(f).isValid}
              IN  /\ \A f \in FieldsOf(form) : errClass'[f] <=> f \in invalid
                  /\ (phase' = "ready") <=> (invalid # {})
                  /\ toasts' = IF invalid = {} THEN 0 ELSE 1
                  /\ \A f \in invalid : Annotated(f, errNodes')]_vars

C13_RehydrationSchedulesNoWrite ==
    /\ [][LoadStep => (store' = store /\ \A form \in Forms : timer'[form] = Idle)]_vars
    /\ [](\A form \in Forms : burst[form] = NoBurst => timer[form].pending = {})
    /\ [][\A form \in Forms :
            store'[AutosaveId[form]] # store[AutosaveId[form]] =>
                (burst[form] # NoBurst \/ Submit(form))]_vars

\* The load just restored fields of the signup form from its stored object and
\* dispatched input events on them; no timeout is pending and the object is there.
C13_Witness ==
    /\ phase = "ready"
    /\ \E f \in FieldsOf("signup") : f \in dispatched
    /\ store["signup"].kind = "object"
    /\ \A form \in Forms : timer[form] = Idle /\ burst[form] = NoBurst /\ form \in bound

====
